---- MODULE Spec2Model ----
(***************************************************************************)
(* Model of the console contact book in src/main.py: the Field validators  *)
(* (Phone, Birthday), Record, AddressBook (add_record, find, delete,       *)
(* iterator, save_to_file, load_from_file, add_contact, ...) and the menu  *)
(* loop of main().                                                         *)
(*                                                                         *)
(* A Python str is a sequence of characters; a character is a one-letter   *)
(* TLA+ string, except the two non-ASCII characters "U+00B2" (SUPERSCRIPT  *)
(* TWO) and "U+0663" (ARABIC-INDIC DIGIT THREE), which are named by their  *)
(* code point.  A date is <<year, month, day>>, Python's None is <<>>.     *)
(***************************************************************************)
EXTENDS Integers, Sequences, FiniteSets, TLC

VARIABLES data, file, pc, out

vars == <<data, file, pc, out>>

----------------------------------------------------------------------------
(* Characters and str methods                                              *)

AsciiDigit == {"0", "1", "2", "3", "4", "5", "6", "7", "8", "9"}

UpperSeq == <<"A","B","C","D","E","F","G","H","I","J","K","L","M",
              "N","O","P","Q","R","S","T","U","V","W","X","Y","Z">>

LowerSeq == <<"a","b","c","d","e","f","g","h","i","j","k","l","m",
              "n","o","p","q","r","s","t","u","v","w","x","y","z">>

\* str.isdigit() is true of a character whose Unicode Numeric_Type is
\* Decimal or Digit: the ASCII digits, other scripts' decimal digits
\* (U+0663) and the compatibility digits such as U+00B2.
IsDigitChar(c) == c \in AsciiDigit \cup {"U+0663", "U+00B2"}

\* \d of the re module on a str pattern: Unicode category Nd only.
IsReDigit(c) == c \in AsciiDigit \cup {"U+0663"}

\* int() of one decimal character.
DigitVal(c) ==
    CASE c = "0" -> 0 [] c = "1" -> 1 [] c = "2" -> 2 [] c = "3" -> 3
      [] c = "4" -> 4 [] c = "5" -> 5 [] c = "6" -> 6 [] c = "7" -> 7
      [] c = "8" -> 8 [] c = "9" -> 9 [] c = "U+0663" -> 3
      [] OTHER -> 0

\* str.isdigit(): non-empty and every character is a digit character.
isdigit(s) == Len(s) > 0 /\ \A i \in 1..Len(s) : IsDigitChar(s[i])

LowerChar(c) ==
    IF \E i \in 1..26 : UpperSeq[i] = c
    THEN LowerSeq[CHOOSE i \in 1..26 : UpperSeq[i] = c]
    ELSE c

\* str.lower()
lower(s) == [i \in 1..Len(s) |-> LowerChar(s[i])]

\* the `in` operator on two str values: sub occurs in s as a substring.
contains(sub, s) ==
    \E i \in 0..(Len(s) - Len(sub)) : SubSeq(s, i + 1, i + Len(sub)) = sub

\* int() of a string of decimal characters, with leading blanks stripped.
RECURSIVE IntOf(_)
IntOf(s) ==
    IF s = <<>> THEN 0
    ELSE IF s[Len(s)] = " " THEN 0
    ELSE 10 * IntOf(SubSeq(s, 1, Len(s) - 1)) + DigitVal(s[Len(s)])

\* '%0<w>d' % n
RECURSIVE ZeroPad(_, _)
ZeroPad(n, w) ==
    IF w = 0 THEN <<>>
    ELSE Append(ZeroPad(n \div 10, w - 1),
                CHOOSE c \in AsciiDigit : DigitVal(c) = n % 10)

\* str(n) of an int n >= 0
RECURSIVE IntStr(_)
IntStr(n) ==
    IF n < 10 THEN <<CHOOSE c \in AsciiDigit : DigitVal(c) = n>>
    ELSE Append(IntStr(n \div 10), CHOOSE c \in AsciiDigit : DigitVal(c) = n % 10)

----------------------------------------------------------------------------
(* Calendar                                                                *)

None == <<>>

NoError == ""

PhoneError == "Invalid phone number format. Phone not added."

BirthdayError == "Invalid birthday format. Use YYYY-MM-DD"

NotFoundError == "Phone number not found."

DayRangeError == "day is out of range for month"

IsLeap(y) == (y % 4 = 0) /\ ((y % 100 # 0) \/ (y % 400 = 0))

DaysInMonth(y, m) ==
    IF m = 2 THEN (IF IsLeap(y) THEN 29 ELSE 28)
    ELSE IF m \in {4, 6, 9, 11} THEN 30 ELSE 31

\* the range check of the date and datetime constructors
ValidDate(y, m, d) ==
    /\ y \in 1..9999
    /\ m \in 1..12
    /\ d >= 1 /\ d <= DaysInMonth(y, m)

RECURSIVE DaysBeforeMonth(_, _)
DaysBeforeMonth(y, m) ==
    IF m = 1 THEN 0 ELSE DaysBeforeMonth(y, m - 1) + DaysInMonth(y, m - 1)

\* date.toordinal(): the proleptic Gregorian day number
Ordinal(y, m, d) ==
    LET p == y - 1
    IN  365 * p + (p \div 4) - (p \div 100) + (p \div 400)
        + DaysBeforeMonth(y, m) + d

\* str(date): date.isoformat(), '%04d-%02d-%02d'
DateStr(dt) == ZeroPad(dt[1], 4) \o <<"-">> \o ZeroPad(dt[2], 2)
               \o <<"-">> \o ZeroPad(dt[3], 2)

\* the regular expression strptime builds for %m: 1[0-2]|0[1-9]|[1-9]
MatchMonth(s) ==
    \/ Len(s) = 2 /\ s[1] = "1" /\ s[2] \in {"0", "1", "2"}
    \/ Len(s) = 2 /\ s[1] = "0" /\ s[2] \in AsciiDigit \ {"0"}
    \/ Len(s) = 1 /\ s[1] \in AsciiDigit \ {"0"}

\* the regular expression for %d: 3[0-1]|[1-2]\d|0[1-9]|[1-9]| [1-9]
MatchDay(s) ==
    \/ Len(s) = 2 /\ s[1] = "3" /\ s[2] \in {"0", "1"}
    \/ Len(s) = 2 /\ s[1] \in {"1", "2"} /\ IsReDigit(s[2])
    \/ Len(s) = 2 /\ s[1] = "0" /\ s[2] \in AsciiDigit \ {"0"}
    \/ Len(s) = 1 /\ s[1] \in AsciiDigit \ {"0"}
    \/ Len(s) = 2 /\ s[1] = " " /\ s[2] \in AsciiDigit \ {"0"}

\* datetime.strptime(s, '%Y-%m-%d').date(): [ok, value].  %Y is exactly
\* four \d characters; the whole string must be consumed; the fields must
\* form a date.
strptime(s) ==
    LET bad == [ok |-> FALSE, value |-> None]
        m1  == Len(s) >= 8 /\ s[7] = "-"
        mEnd == IF m1 THEN 6 ELSE 7
    IN  IF Len(s) < 8 \/ Len(s) > 10 THEN bad
        ELSE IF ~(\A i \in 1..4 : IsReDigit(s[i])) \/ s[5] # "-" THEN bad
        ELSE IF s[mEnd + 1] # "-" THEN bad
        ELSE LET ms == SubSeq(s, 6, mEnd)
                 ds == SubSeq(s, mEnd + 2, Len(s))
                 y  == IntOf(SubSeq(s, 1, 4))
             IN  IF ~MatchMonth(ms) \/ ~MatchDay(ds) THEN bad
                 ELSE IF ~ValidDate(y, IntOf(ms), IntOf(ds)) THEN bad
                 ELSE [ok |-> TRUE, value |-> <<y, IntOf(ms), IntOf(ds)>>]

----------------------------------------------------------------------------
(* Field validators and Record                                             *)

PhoneLen == 10

\* Phone.value setter: [err, value]
Phone(value) ==
    IF isdigit(value) /\ Len(value) = PhoneLen
    THEN [err |-> NoError, value |-> value]
    ELSE [err |-> PhoneError, value |-> None]

\* Birthday.value setter: [err, value]
Birthday(value) ==
    LET r == strptime(value)
    IN  IF r.ok THEN [err |-> NoError, value |-> r.value]
        ELSE [err |-> BirthdayError, value |-> None]

\* Record.__init__: [err, rec].  `Birthday(birthday) if birthday else None`:
\* None and the empty string are both falsy (and both <<>> here).
Record(name, birthday) ==
    IF birthday = <<>>
    THEN [err |-> NoError,
          rec |-> [name |-> name, phones |-> <<>>, birthday |-> None]]
    ELSE LET b == Birthday(birthday)
         IN  [err |-> b.err,
              rec |-> [name |-> name, phones |-> <<>>, birthday |-> b.value]]

\* Record.add_phone: [err, rec], rec being the record after the call
add_phone(rec, phone) ==
    LET p == Phone(phone)
    IN  IF p.err = NoError
        THEN [err |-> NoError,
              rec |-> [rec EXCEPT !.phones = Append(@, p.value)]]
        ELSE [err |-> p.err, rec |-> rec]

\* Record.remove_phone: the record after the call
remove_phone(rec, phone) ==
    [rec EXCEPT !.phones = SelectSeq(@, LAMBDA p : p # phone)]

HasPhone(rec, phone) == \E i \in 1..Len(rec.phones) : rec.phones[i] = phone

edit_phone_unchecked(rec, old_phone, new_phone) ==
    add_phone(remove_phone(rec, old_phone), new_phone)

\* Record.edit_phone: [err, rec], rec being the record after the call,
\* also when the call raises
edit_phone(rec, old_phone, new_phone) ==
    IF ~HasPhone(rec, old_phone)
    THEN [err |-> NotFoundError, rec |-> rec]
    ELSE add_phone(remove_phone(rec, old_phone), new_phone)

RECURSIVE Join(_, _)
\* sep.join(parts)
Join(parts, sep) ==
    IF parts = <<>> THEN <<>>
    ELSE IF Len(parts) = 1 THEN parts[1]
    ELSE parts[1] \o sep \o Join(Tail(parts), sep)

\* Record.__str__
RecordStr(rec) ==
    <<"C","o","n","t","a","c","t"," ","n","a","m","e",":"," ">> \o rec.name
    \o <<","," ","p","h","o","n","e","s",":"," ">> \o Join(rec.phones, <<";", " ">>)

\* datetime.__gt__ on (year, month, day, hour, minute, second, microsecond)
RECURSIVE TupleGt(_, _)
TupleGt(a, b) ==
    IF a = <<>> THEN FALSE
    ELSE IF a[1] # b[1] THEN a[1] > b[1]
    ELSE TupleGt(Tail(a), Tail(b))

\* (next_birthday - today).days: the timedelta constructor normalises
\* microseconds into seconds and seconds into days, rounding down.
DeltaDays(next, today) ==
    LET d   == Ordinal(next[1], next[2], next[3])
               - Ordinal(today[1], today[2], today[3])
        s   == 0 - (today[4] * 3600 + today[5] * 60 + today[6])
        us  == 0 - today[7]
        s2  == s + (us \div 1000000)
    IN  d + (s2 \div 86400)

\* Record.days_to_birthday with datetime.today() = today:
\* [err, value], value being <<days_left>> or None
days_to_birthday(rec, today) ==
    IF rec.birthday = None THEN [err |-> NoError, value |-> None]
    ELSE IF ~ValidDate(today[1], rec.birthday[2], rec.birthday[3])
    THEN [err |-> DayRangeError, value |-> None]
    ELSE LET this == <<today[1], rec.birthday[2], rec.birthday[3], 0, 0, 0, 0>>
         IN  IF TupleGt(today, this)
             THEN IF ~ValidDate(today[1] + 1, rec.birthday[2], rec.birthday[3])
                  THEN [err |-> DayRangeError, value |-> None]
                  ELSE [err |-> NoError,
                        value |-> <<DeltaDays(<<today[1] + 1, rec.birthday[2],
                                                rec.birthday[3]>>, today)>>]
             ELSE [err |-> NoError, value |-> <<DeltaDays(this, today)>>]

----------------------------------------------------------------------------
(* AddressBook: self.data is a dict, modelled as the sequence of its       *)
(* [key, rec] items in iteration (insertion) order.                        *)

HasKey(d, k) == \E i \in 1..Len(d) : d[i].key = k

KeyIndex(d, k) == CHOOSE i \in 1..Len(d) : d[i].key = k

\* self.data[k]
Lookup(d, k) == d[KeyIndex(d, k)].rec

\* self.data[k] = rec: an existing key keeps its place, a new one goes last
SetItem(d, k, rec) ==
    IF HasKey(d, k)
    THEN [d EXCEPT ![KeyIndex(d, k)] = [key |-> k, rec |-> rec]]
    ELSE Append(d, [key |-> k, rec |-> rec])

add_record_append(d, rec) == Append(d, [key |-> rec.name, rec |-> rec])

\* AddressBook.add_record
add_record(d, rec) == SetItem(d, rec.name, rec)

\* AddressBook.delete
delete(d, name) ==
    IF HasKey(d, name) THEN SelectSeq(d, LAMBDA e : e.key # name) ELSE d

\* the inner loop of find over record.phones[i..]: the record is appended
\* at the first phone that contains the query, and the loop breaks
RECURSIVE FindPhones(_, _, _, _)
FindPhones(results, rec, query, i) ==
    IF i > Len(rec.phones) THEN results
    ELSE IF contains(query, rec.phones[i]) THEN Append(results, rec)
    ELSE FindPhones(results, rec, query, i + 1)

RECURSIVE FindPhonesNoBreak(_, _, _, _)
FindPhonesNoBreak(results, rec, query, i) ==
    IF i > Len(rec.phones) THEN results
    ELSE IF contains(query, rec.phones[i])
         THEN FindPhonesNoBreak(Append(results, rec), rec, query, i + 1)
         ELSE FindPhonesNoBreak(results, rec, query, i + 1)

RECURSIVE FindLoopNoBreak(_, _, _, _)
FindLoopNoBreak(d, query, i, results) ==
    IF i > Len(d) THEN results
    ELSE IF contains(lower(query), lower(d[i].key))
         THEN FindLoopNoBreak(d, query, i + 1, Append(results, d[i].rec))
         ELSE FindLoopNoBreak(d, query, i + 1,
                              FindPhonesNoBreak(results, d[i].rec, query, 1))

\* the outer loop of find over self.data.items()[i..]
RECURSIVE FindLoop(_, _, _, _)
FindLoop(d, query, i, results) ==
    IF i > Len(d) THEN results
    ELSE IF contains(lower(query), lower(d[i].key))
         THEN FindLoop(d, query, i + 1, Append(results, d[i].rec))
         ELSE FindLoop(d, query, i + 1, FindPhones(results, d[i].rec, query, 1))

find_no_break(d, query) == FindLoopNoBreak(d, query, 1, <<>>)

\* AddressBook.find: the list of matching records
find(d, query) == FindLoop(d, query, 1, <<>>)

\* f'{item}: {record}'
Entry(e) == e.key \o <<":", " ">> \o RecordStr(e.rec)

\* the loop of iterator over self.data.items()[i..]; pages collects what
\* the generator yields
RECURSIVE IterLoop(_, _, _, _, _, _)
IterLoop(d, item_number, i, counter, result, pages) ==
    IF i > Len(d) THEN pages
    ELSE LET r == result \o Entry(d[i])
             c == counter + 1
         IN  IF c >= item_number
             THEN IterLoop(d, item_number, i + 1, 0, <<>>, Append(pages, r))
             ELSE IterLoop(d, item_number, i + 1, c, r, pages)

RECURSIVE IterLoopFlush(_, _, _, _, _, _)
IterLoopFlush(d, item_number, i, counter, result, pages) ==
    IF i > Len(d)
    THEN (IF counter > 0 THEN Append(pages, result) ELSE pages)
    ELSE LET r == result \o Entry(d[i])
             c == counter + 1
         IN  IF c >= item_number
             THEN IterLoopFlush(d, item_number, i + 1, 0, <<>>, Append(pages, r))
             ELSE IterLoopFlush(d, item_number, i + 1, c, r, pages)

iterator_flush(d, item_number) == IterLoopFlush(d, item_number, 1, 0, <<>>, <<>>)

\* AddressBook.iterator, run to exhaustion: the sequence of yielded pages
iterator(d, item_number) == IterLoop(d, item_number, 1, 0, <<>>, <<>>)

\* a file is [exists, records]: whether it exists, and the items of the
\* 'records' object of its JSON document
Missing == [exists |-> FALSE, records |-> <<>>]

FileNotFound == "FileNotFoundError"

save_to_file_no_birthday(d) ==
    [i \in 1..Len(d) |->
        [name |-> d[i].key, phones |-> d[i].rec.phones, birthday |-> None]]

\* AddressBook.save_to_file: the JSON document written, as the items of
\* its 'records' object; a birthday is str(date) or null (<<>>)
save_to_file(d) ==
    [i \in 1..Len(d) |->
        [name     |-> d[i].key,
         phones   |-> d[i].rec.phones,
         birthday |-> IF d[i].rec.birthday # None
                      THEN DateStr(d[i].rec.birthday) ELSE None]]

\* the inner loop of load_from_file over record_data['phones'][j..]
RECURSIVE LoadPhones(_, _, _)
LoadPhones(rec, phones, j) ==
    IF j > Len(phones) THEN [err |-> NoError, rec |-> rec]
    ELSE LET a == add_phone(rec, phones[j])
         IN  IF a.err # NoError THEN a
             ELSE LoadPhones(a.rec, phones, j + 1)

\* the loop of load_from_file over data['records'].items()[i..]:
\* [err, data]; an exception leaves the records loaded before it
RECURSIVE LoadLoop(_, _, _)
LoadLoop(d, records, i) ==
    IF i > Len(records) THEN [err |-> NoError, data |-> d]
    ELSE LET r == Record(records[i].name, records[i].birthday)
         IN  IF r.err # NoError THEN [err |-> r.err, data |-> d]
             ELSE LET l == LoadPhones(r.rec, records[i].phones, 1)
                  IN  IF l.err # NoError THEN [err |-> l.err, data |-> d]
                      ELSE LoadLoop(add_record(d, l.rec), records, i + 1)

\* AddressBook.load_from_file on a book d and a file f: [err, data]
load_from_file(d, f) ==
    IF ~f.exists THEN [err |-> FileNotFound, data |-> d]
    ELSE LoadLoop(d, f.records, 1)

\* AddressBook.add_contact with the three get_user_input answers:
\* [err, data, msgs]
add_contact(d, name, birthday, phone_count) ==
    LET r == Record(name, birthday)
    IN  IF r.err # NoError THEN [err |-> r.err, data |-> d, msgs |-> <<>>]
        ELSE LET a == add_phone(r.rec, phone_count)
             IN  IF a.err # NoError
                 THEN [err |-> a.err, data |-> d, msgs |-> <<>>]
                 ELSE [err |-> NoError, data |-> add_record(d, a.rec),
                       msgs |-> <<"Contact added successfully.">>]

------------------------------------------------------------

----------------------------------------------------------------------------
(* Inputs                                                                  *)

MaxPhones == 2

FileMaxPhones == 1

Al == <<"A","l">>

al5 == <<"a","l","5">>

Bo == <<"B","o">>

PhoneA == <<"1","2","3","4","5","6","7","8","9","0">>

PhoneB == <<"0","9","8","7","6","5","4","3","2","1">>

\* ten SUPERSCRIPT TWO characters
PhoneSup == <<"U+00B2","U+00B2","U+00B2","U+00B2","U+00B2","U+00B2","U+00B2","U+00B2","U+00B2","U+00B2">>

PhoneShort == <<"1","2","3","4","5","6","7","8","9">>

PhoneLong == <<"1","2","3","4","5","6","7","8","9","0","1">>

PhoneAlpha == <<"1","2","3","4","5","a","7","8","9","0">>

May20 == <<"2","0","0","0","-","0","5","-","2","0">>

May20Short == <<"2","0","0","0","-","5","-","2","0">>

Feb29 == <<"2","0","0","0","-","0","2","-","2","9">>

BadBirthday == <<"2","0","-","0","5","-","2","0","0","0">>

Names == {Al, al5}

PageNames == {Al, al5, Bo}

PhoneInputs == {PhoneA, PhoneB, PhoneShort, PhoneAlpha}

FilePhoneInputs == {PhoneA, PhoneSup, PhoneLong}

\* the phone each name is given before a save
OwnPhone(name) == IF name = Al THEN PhoneA ELSE PhoneB

MenuPhoneInputs == {PhoneA, <<"2">>}

MenuBirthdayInputs == {<<>>, May20, Feb29, BadBirthday}

MenuQueries == {<<"a","l">>, <<"5">>, <<"x">>}

MenuTodays == {<<2023, 5, 20, 0, 0, 0, 0>>, <<2024, 5, 20, 12, 0, 0, 0>>}

InvalidChoices == {<<"7">>, <<"0">>, <<>>, <<"1","0">>}

RecordBirthdays == {<<>>, May20}

BirthdayInputs == {<<>>, May20, May20Short, Feb29, BadBirthday}

FileBirthdayInputs == {<<>>, BadBirthday}

Queries == {<<>>, <<"a","l">>, <<"A","L">>, <<"5">>, <<"9","0">>, <<"0","9","8","7">>}

PageSizes == {0, 1, 2, 3}

\* values of datetime.today(): year, month, day, hour, minute, second,
\* microsecond
Todays ==
    {<<y, 5, d, t[1], 0, 0, t[2]>> :
        y \in {2023, 2024}, d \in {19, 20, 21}, t \in {<<0, 0>>, <<0, 1>>, <<12, 0>>}}

\* a file written by hand, with an unpadded month
HandFile ==
    [exists |-> TRUE,
     records |-> <<[name |-> al5, phones |-> <<PhoneB>>, birthday |-> May20Short]>>]

\* a file written by hand whose second record has a 9-digit phone
BadFile ==
    [exists |-> TRUE,
     records |-> <<[name |-> Al, phones |-> <<PhoneA>>, birthday |-> None],
                   [name |-> al5, phones |-> <<PhoneShort>>, birthday |-> None]>>]

InitialFiles == {Missing, HandFile, BadFile}

----------------------------------------------------------------------------
(* State and operations                                                    *)

Out(op, args, err, val) == [op |-> op, args |-> args, err |-> err, val |-> val]

Init ==
    /\ data = <<>>
    /\ file = Missing
    /\ pc = "api"
    /\ out = Out("init", <<>>, NoError, <<>>)

\* book.add_record(Record(name, birthday))
AddRecord(name, birthday) ==
    /\ pc = "api"
    /\ LET r == Record(name, birthday)
       IN  /\ data' = IF r.err = NoError THEN add_record(data, r.rec) ELSE data
           /\ out' = Out("add_record", <<name, birthday>>, r.err, <<>>)
    /\ UNCHANGED <<file, pc>>

\* book[name].add_phone(phone)
AddPhone(name, phone, maxPhones) ==
    /\ pc = "api"
    /\ HasKey(data, name)
    /\ Len(Lookup(data, name).phones) < maxPhones
    /\ LET a == add_phone(Lookup(data, name), phone)
       IN  /\ data' = SetItem(data, name, a.rec)
           /\ out' = Out("add_phone", <<name, phone>>, a.err, <<>>)
    /\ UNCHANGED <<file, pc>>

\* book[name].remove_phone(phone)
RemovePhone(name, phone) ==
    /\ pc = "api"
    /\ HasKey(data, name)
    /\ data' = SetItem(data, name, remove_phone(Lookup(data, name), phone))
    /\ out' = Out("remove_phone", <<name, phone>>, NoError, <<>>)
    /\ UNCHANGED <<file, pc>>

\* book[name].edit_phone(old_phone, new_phone)
EditPhone(name, old_phone, new_phone) ==
    /\ pc = "api"
    /\ HasKey(data, name)
    /\ LET e == edit_phone(Lookup(data, name), old_phone, new_phone)
       IN  /\ data' = SetItem(data, name, e.rec)
           /\ out' = Out("edit_phone", <<name, old_phone, new_phone>>, e.err, <<>>)
    /\ UNCHANGED <<file, pc>>

\* book.delete(name)
Delete(name) ==
    /\ pc = "api"
    /\ data' = delete(data, name)
    /\ out' = Out("delete", <<name>>, NoError, <<>>)
    /\ UNCHANGED <<file, pc>>

\* book.find(query)
Find(query) ==
    /\ pc = "api"
    /\ out' = Out("find", <<query>>, NoError, find(data, query))
    /\ UNCHANGED <<data, file, pc>>

\* list(book.iterator(item_number))
Iterate(item_number) ==
    /\ pc = "api"
    /\ out' = Out("iterator", <<item_number>>, NoError, iterator(data, item_number))
    /\ UNCHANGED <<data, file, pc>>

\* book[name].days_to_birthday() at the moment today
DaysToBirthday(name, today) ==
    /\ pc = "api"
    /\ HasKey(data, name)
    /\ LET r == days_to_birthday(Lookup(data, name), today)
       IN  out' = Out("days_to_birthday", <<name, today>>, r.err, r.value)
    /\ UNCHANGED <<data, file, pc>>

\* book.add_contact(ui), ui answering name, birthday and phone_count
AddContact(name, birthday, phone_count) ==
    /\ pc = "api"
    /\ LET r == add_contact(data, name, birthday, phone_count)
       IN  /\ data' = r.data
           /\ out' = Out("add_contact", <<name, birthday, phone_count>>, r.err, r.msgs)
    /\ UNCHANGED <<file, pc>>

\* book.save_to_file(path)
SaveToFile ==
    /\ pc = "api"
    /\ file' = [exists |-> TRUE, records |-> save_to_file(data)]
    /\ out' = Out("save_to_file", <<>>, NoError, <<>>)
    /\ UNCHANGED <<data, pc>>

\* book.load_from_file(path)
LoadFromFile ==
    /\ pc = "api"
    /\ LET l == load_from_file(data, file)
       IN  /\ data' = l.data
           /\ out' = Out("load_from_file", <<>>, l.err, <<>>)
    /\ UNCHANGED <<file, pc>>

\* fresh = AddressBook(); fresh.load_from_file(path): out.val is fresh.data
LoadFresh ==
    /\ pc = "api"
    /\ LET l == load_from_file(<<>>, file)
       IN  out' = Out("load_fresh", <<>>, l.err, l.data)
    /\ UNCHANGED <<data, file, pc>>

\* Records, their phones and find
Next ==
    \/ \E n \in Names : AddRecord(n, <<>>)
    \/ \E n \in Names, p \in PhoneInputs : AddPhone(n, p, MaxPhones)
    \/ \E n \in Names, p \in PhoneInputs : RemovePhone(n, p)
    \/ \E n \in Names, o \in PhoneInputs, p \in PhoneInputs : EditPhone(n, o, p)
    \/ \E n \in Names : Delete(n)
    \/ \E q \in Queries : Find(q)

Spec == Init /\ [][Next]_vars

\* Birthdays
BirthdayNext ==
    \/ \E n \in Names, b \in BirthdayInputs : AddRecord(n, b)
    \/ \E n \in Names : Delete(n)
    \/ \E n \in Names, t \in Todays : DaysToBirthday(n, t)

BirthdaySpec == Init /\ [][BirthdayNext]_vars

\* Pagination
PageNext ==
    \/ \E n \in PageNames : AddRecord(n, <<>>)
    \/ \E n \in PageNames : AddPhone(n, PhoneA, MaxPhones)
    \/ \E n \in PageNames : Delete(n)
    \/ \E k \in PageSizes : Iterate(k)

PageSpec == Init /\ [][PageNext]_vars

\* Every operation that changes the book, on a book and a file found on disk
FileInit ==
    /\ data = <<>>
    /\ file \in InitialFiles
    /\ pc = "api"
    /\ out = Out("init", <<>>, NoError, <<>>)

FileNext ==
    \/ \E n \in Names, b \in FileBirthdayInputs : AddRecord(n, b)
    \/ \E n \in Names, p \in FilePhoneInputs : AddPhone(n, p, FileMaxPhones)
    \/ \E n \in Names, p \in FilePhoneInputs : RemovePhone(n, p)
    \/ \E n \in Names, o \in {PhoneA, PhoneSup}, p \in FilePhoneInputs : EditPhone(n, o, p)
    \/ \E n \in Names : Delete(n)
    \/ \E n \in Names, b \in FileBirthdayInputs, p \in FilePhoneInputs : AddContact(n, b, p)
    \/ LoadFromFile

FileSpec == FileInit /\ [][FileNext]_vars

\* Saving a book and loading the file into a fresh book
RoundTripNext ==
    \/ \E n \in Names, b \in RecordBirthdays : AddRecord(n, b)
    \/ \E n \in Names : AddPhone(n, OwnPhone(n), FileMaxPhones)
    \/ \E n \in Names : Delete(n)
    \/ SaveToFile
    \/ LoadFresh

RoundTripSpec == Init /\ [][RoundTripNext]_vars

----------------------------------------------------------------------------
(* main(): pc is "start" before the initial load, "menu" at the top of the *)
(* while loop, "exited" after the break, "crashed" when an exception left  *)
(* main.  out.val is [msgs, printed]: the display_message texts and the    *)
(* print lines of the step.                                                *)

Shown(msgs, printed) == [msgs |-> msgs, printed |-> printed]

MainInit ==
    /\ data = <<>>
    /\ file \in InitialFiles
    /\ pc = "start"
    /\ out = Out("init", <<>>, NoError, Shown(<<>>, <<>>))

\* the try block before the loop: only FileNotFoundError is caught
Startup ==
    /\ pc = "start"
    /\ LET l == load_from_file(data, file)
       IN  /\ data' = l.data
           /\ pc' = IF l.err \in {NoError, FileNotFound} THEN "menu" ELSE "crashed"
           /\ out' = Out("load", <<>>, l.err,
                         Shown(IF l.err = NoError
                               THEN <<"Address book loaded successfully.">>
                               ELSE IF l.err = FileNotFound
                               THEN <<"No existing address book found.">>
                               ELSE <<>>, <<>>))
    /\ UNCHANGED file

\* choice '1': add_contact; an exception is not caught by main
MenuAdd(name, birthday, phone_count) ==
    /\ pc = "menu"
    /\ LET r == add_contact(data, name, birthday, phone_count)
       IN  /\ data' = r.data
           /\ pc' = IF r.err = NoError THEN "menu" ELSE "crashed"
           /\ out' = Out("add_contact", <<<<"1">>, name, birthday, phone_count>>,
                         r.err, Shown(r.msgs, <<>>))
    /\ UNCHANGED file

\* choice '2': delete_contact
MenuDelete(name) ==
    /\ pc = "menu"
    /\ data' = delete(data, name)
    /\ out' = Out("delete_contact", <<<<"2">>, name>>, NoError,
                  Shown(<<"Contact deleted successfully.">>, <<>>))
    /\ UNCHANGED <<file, pc>>

\* choice '3': search_contacts
MenuSearch(query) ==
    /\ pc = "menu"
    /\ LET results == find(data, query)
       IN  out' = Out("search_contacts", <<<<"3">>, query>>, NoError,
                      IF results # <<>>
                      THEN Shown(<<"Search results:">>,
                                 [i \in 1..Len(results) |-> RecordStr(results[i])])
                      ELSE Shown(<<"No matching contacts found.">>, <<>>))
    /\ UNCHANGED <<data, file, pc>>

\* choice '4': show_all_contacts
MenuShowAll ==
    /\ pc = "menu"
    /\ out' = Out("show_all_contacts", <<<<"4">>>>, NoError,
                  IF data # <<>>
                  THEN Shown(<<"\nAll contacts:">>,
                             [i \in 1..Len(data) |-> RecordStr(data[i].rec)])
                  ELSE Shown(<<>>, <<>>))
    /\ UNCHANGED <<data, file, pc>>

\* f"{record.name.value}: {record.birthday.value} (in {days_left} days)"
BirthdayLine(rec, days_left) ==
    rec.name \o <<":", " ">> \o DateStr(rec.birthday)
    \o <<" ","(","i","n"," ">> \o IntStr(days_left) \o <<" ","d","a","y","s",")">>

\* choice '5': show_all_contacts_with_birthdays; days_to_birthday may raise
MenuBirthdays(today) ==
    /\ pc = "menu"
    /\ LET days == [i \in 1..Len(data) |-> days_to_birthday(data[i].rec, today)]
           failed == \E i \in 1..Len(data) : days[i].err # NoError
           with == SelectSeq([i \in 1..Len(data) |-> i],
                             LAMBDA i : days[i].value # None)
       IN  /\ pc' = IF failed THEN "crashed" ELSE "menu"
           /\ out' = Out("show_all_contacts_with_birthdays", <<<<"5">>, today>>,
                         IF failed THEN DayRangeError ELSE NoError,
                         IF failed \/ with = <<>> THEN Shown(<<>>, <<>>)
                         ELSE Shown(<<"\nUpcoming birthdays:">>,
                                    [j \in 1..Len(with) |->
                                        BirthdayLine(data[with[j]].rec,
                                                     days[with[j]].value[1])]))
    /\ UNCHANGED <<data, file>>

\* choice '6': save_to_file, then break
MenuExit ==
    /\ pc = "menu"
    /\ file' = [exists |-> TRUE, records |-> save_to_file(data)]
    /\ pc' = "exited"
    /\ out' = Out("exit", <<<<"6">>>>, NoError,
                  Shown(<<"Address book saved. Exiting...">>, <<>>))
    /\ UNCHANGED data

MenuChoices == {<<"1">>, <<"2">>, <<"3">>, <<"4">>, <<"5">>, <<"6">>}

\* the else branch: any other choice
MenuInvalid(choice) ==
    /\ pc = "menu"
    /\ choice \notin MenuChoices
    /\ out' = Out("invalid", <<choice>>, NoError,
                  Shown(<<"Invalid choice. Please enter a number between 1 and 6.">>, <<>>))
    /\ UNCHANGED <<data, file, pc>>

MainNext ==
    \/ Startup
    \/ \E n \in Names, b \in MenuBirthdayInputs, p \in MenuPhoneInputs : MenuAdd(n, b, p)
    \/ \E n \in Names : MenuDelete(n)
    \/ \E q \in MenuQueries : MenuSearch(q)
    \/ MenuShowAll
    \/ \E t \in MenuTodays : MenuBirthdays(t)
    \/ MenuExit
    \/ \E c \in InvalidChoices \cup MenuChoices : MenuInvalid(c)

MainSpec == MainInit /\ [][MainNext]_vars

----------------------------------------------------------------------------
(* Properties                                                              *)

ToSet(s) == {s[i] : i \in 1..Len(s)}

Keys(d) == {d[i].key : i \in 1..Len(d)}

\* a decimal digit, of any script
IsDecimalDigit(c) == c \in AsciiDigit \cup {"U+0663"}

\* C1: every phone stored in every record of the book is a string of
\* exactly 10 decimal digits, whatever operations ran before, failed ones
\* included.
C1_StoredPhonesAreTenDecimalDigits ==
    \A i \in 1..Len(data) :
        \A j \in 1..Len(data[i].rec.phones) :
            LET p == data[i].rec.phones[j]
            IN  Len(p) = 10 /\ \A k \in 1..Len(p) : IsDecimalDigit(p[k])

\* two books hold the same names and, for each name, the same phone set
\* and the same birthday (or none)
SameBook(b1, b2) ==
    /\ Keys(b1) = Keys(b2)
    /\ \A k \in Keys(b1) :
          /\ ToSet(Lookup(b1, k).phones) = ToSet(Lookup(b2, k).phones)
          /\ Lookup(b1, k).birthday = Lookup(b2, k).birthday

\* C2: loading, into a fresh empty book, the file that save_to_file has
\* just written from book B succeeds and yields a book with the names of B
\* and, for each name, B's phone set and birthday; an empty B yields an
\* empty book.
C2_SaveLoadRoundTrip ==
    [][(out.op = "save_to_file" /\ out'.op = "load_fresh")
         => (out'.err = NoError /\ SameBook(out'.val, data))]_vars

C2_Witness ==
    /\ out.op = "load_fresh"
    /\ out.err = NoError
    /\ Len(data) = 2
    /\ out.val = data
    /\ \E i \in 1..2 : data[i].rec.phones # <<>> /\ data[i].rec.birthday # None
    /\ \E i \in 1..2 : data[i].rec.birthday = None

\* the entry's name contains the query case-insensitively, or one of its
\* phones contains the query
Matches(e, query) ==
    \/ contains(lower(query), lower(e.key))
    \/ \E j \in 1..Len(e.rec.phones) : contains(query, e.rec.phones[j])

\* C3: find(q) returns exactly the records whose name contains q
\* case-insensitively or that have a phone containing q, each exactly once.
C3_FindExactlyOnce ==
    out.op = "find" =>
        LET q == out.args[1]
            matching == {i \in 1..Len(data) : Matches(data[i], q)}
        IN  /\ \A i \in matching :
                  Cardinality({j \in 1..Len(out.val) : out.val[j] = data[i].rec}) = 1
            /\ Len(out.val) = Cardinality(matching)

C3_Witness ==
    /\ out.op = "find"
    /\ Len(out.val) = 2
    /\ \E i \in 1..Len(data) :
          /\ ~contains(lower(out.args[1]), lower(data[i].key))
          /\ Len(data[i].rec.phones) = 2
          /\ \A j \in 1..2 : contains(out.args[1], data[i].rec.phones[j])
    /\ \E i \in 1..Len(data) :
          /\ contains(lower(out.args[1]), lower(data[i].key))
          /\ \E j \in 1..Len(data[i].rec.phones) :
                contains(out.args[1], data[i].rec.phones[j])

\* C4: edit_phone(old, new) on a record with no phone equal to old fails
\* with the "phone not found" error and leaves the phone list (and the
\* book) unchanged, whether new is valid or not.
C4_EditPhoneNotFound ==
    [][(/\ out'.op = "edit_phone"
        /\ out'.args[2] \notin ToSet(Lookup(data, out'.args[1]).phones))
         => (out'.err = NotFoundError /\ data' = data)]_vars

C4_Witness ==
    /\ out.op = "edit_phone"
    /\ out.err = NotFoundError
    /\ Phone(out.args[3]).err = NoError
    /\ Lookup(data, out.args[1]).phones # <<>>

\* C5: for a record with a birthday, days_to_birthday returns a
\* non-negative integer: 0 when the birthday's month/day is today's, at any
\* time of the day; 1 when it is the day after today; and the day count to
\* next year's occurrence (365 or 366, minus 1) when it is the day before.
C5_DaysToBirthday ==
    (out.op = "days_to_birthday" /\ Lookup(data, out.args[1]).birthday # None) =>
        LET b     == Lookup(data, out.args[1]).birthday
            today == out.args[2]
            bday  == Ordinal(today[1], b[2], b[3])
            now   == Ordinal(today[1], today[2], today[3])
        IN  /\ out.err = NoError
            /\ out.val # None
            /\ out.val[1] >= 0
            /\ (bday = now => out.val[1] = 0)
            /\ (bday = now + 1 => out.val[1] = 1)
            /\ (bday = now - 1 =>
                   /\ out.val[1] = Ordinal(today[1] + 1, b[2], b[3]) - now
                   /\ out.val[1] \in {364, 365})

\* C6: for page_size >= 1, iterator(page_size) yields floor(n / page_size)
\* pages, page k concatenating the entries of records (k-1)*page_size+1 ..
\* k*page_size in iteration order; the n mod page_size last entries are not
\* yielded, and the book is unchanged.
C6_IteratorFullPages ==
    [][(out'.op = "iterator" /\ out'.args[1] >= 1) =>
          LET k == out'.args[1]
          IN  /\ data' = data
              /\ Len(out'.val) = Len(data) \div k
              /\ \A g \in 1..Len(out'.val) :
                    out'.val[g] =
                        Join([i \in 1..k |-> Entry(data[(g - 1) * k + i])], <<>>)]_vars

C6_Witness ==
    /\ out.op = "iterator"
    /\ out.args[1] = 2
    /\ Len(data) = 3
    /\ Len(out.val) = 1
    /\ \E i \in 1..3 : data[i].rec.phones # <<>>

\* C7: when add_contact, invoked from the menu, fails on an invalid phone
\* or birthday, a message is displayed, the book is unchanged and the menu
\* loop goes on to read the next choice.
C7_MenuAddFailureIsDisplayed ==
    [][(out'.op = "add_contact" /\ out'.err # NoError)
         => (data' = data /\ pc' = "menu" /\ out'.val.msgs # <<>>)]_vars

\* every key is the name of its record and no key occurs twice
KeysAreNames(d) ==
    /\ \A i \in 1..Len(d) : d[i].key = d[i].rec.name
    /\ \A i, j \in 1..Len(d) : d[i].key = d[j].key => i = j

\* C8: add_record stores the record under its name, replacing a record
\* already stored under that name and leaving every other entry unchanged;
\* after any operation the book holds at most one record per name and
\* every key is the name of its record.
C8_AddRecordLastWriteWins ==
    [][/\ KeysAreNames(data')
       /\ (out'.op = "add_record" /\ out'.err = NoError) =>
             LET n == out'.args[1]
             IN  /\ Keys(data') = Keys(data) \cup {n}
                 /\ Lookup(data', n) = Record(n, out'.args[2]).rec
                 /\ \A k \in Keys(data) \ {n} : Lookup(data', k) = Lookup(data, k)]_vars

C8_Witness ==
    /\ out.op = "add_record"
    /\ out.err = NoError
    /\ Len(data) = 2
    /\ data[1].key = out.args[1]
    /\ data[2].rec.phones # <<>>

\* C9: an invalid choice displays the invalid-choice message, leaves the
\* book unchanged and re-prompts; the loop ends only by choice "6"; and
\* whenever the session has ended, the book has been written to the file.
C9_MenuLoop ==
    [][/\ (out'.op = "invalid") =>
             (data' = data /\ pc' = "menu" /\ out'.val.msgs # <<>>)
       /\ (pc = "menu" /\ pc' # "menu") => out'.args[1] = <<"6">>
       /\ (pc = "menu" /\ pc' \in {"exited", "crashed"}) =>
             file' = [exists |-> TRUE, records |-> save_to_file(data')]]_vars

\* C10: edit_phone(old, new) on a record that contains old, failing
\* because new is not a valid phone, leaves the phone list as it was.
C10_EditPhoneAllOrNothing ==
    [][(/\ out'.op = "edit_phone"
        /\ out'.args[2] \in ToSet(Lookup(data, out'.args[1]).phones)
        /\ out'.err = PhoneError)
         => data' = data]_vars

====
